---- MODULE Spec2Model ----
(***************************************************************************)
(* Model of shadow_hand/ik/ik_solver.py: IKSolver.solve and _solve_ik.     *)
(*                                                                         *)
(* The hand is a small chain on a one-dimensional world axis.  Joint       *)
(* positions live on an integer grid; velocities are carried in hundredths *)
(* of a grid unit so that the gains 0.95 and 0.4 are exact.  The world     *)
(* position of a fingertip site is the sum of the positions of the joints  *)
(* on its kinematic path (its finger joint and the wrist joint).           *)
(*                                                                         *)
(* Two further parts stand beside the solver, each with a specification    *)
(* of its own: the conversions between the controls and the joint          *)
(* positions of the hand (SpecHand), and the episode of the Reach task of  *)
(* manipulation/tasks/reach.py (SpecReach).                                *)
(***************************************************************************)
EXTENDS Integers, Sequences, FiniteSets, TLC

\* ------------------------------------------------------------------ bounds
MaxSteps == 2
MaxAttempts == 2

\* ------------------------------------------------------- program constants
LINEAR_VELOCITY_GAIN == 95
NULLSPACE_GAIN == 40
INTEGRATION_TIMESTEP_SEC == 1
PROGRESS_THRESHOLD == 20

\* ---------------------------------------------------------- the hand model
JOINT_NAMES == <<"WRJ", "FFJ", "MFJ">>

Joints == {JOINT_NAMES[i] : i \in 1..Len(JOINT_NAMES)}

JOINT_GROUP == [WR |-> <<"WRJ">>, FF |-> <<"FFJ">>, MF |-> <<"MFJ">>]

JointRange ==
    [WRJ |-> [min |-> 0, max |-> 1],
     FFJ |-> [min |-> 0, max |-> 2],
     MFJ |-> [min |-> 0, max |-> 6]]

FingerChoices == {<<"FF">>, <<"FF", "MF">>}

GainChoices == {0, 20, 40}

TargetValues == {3, 50}

LinearTols == {1}

SeqToSet(s) == {s[i] : i \in 1..Len(s)}

Abs(x) == IF x < 0 THEN -x ELSE x

\* Permutations of a finite set, as sequences without repetition.
Orderings(S) ==
    {s \in [1..Cardinality(S) -> S] : \A i, j \in 1..Cardinality(S) : s[i] = s[j] => i = j}

VARIABLES
    fingers,          \* self._fingers
    nullspace_gain,   \* self._nullspace_gain, in hundredths
    qpos,             \* self._physics.data.qpos, one entry per joint
    pc,               \* position in solve
    args,             \* arguments of the running solve call
    attempt,          \* loop variable of solve
    success,          \* local of solve
    sol_qpos,         \* local of solve: <<>> is None, <<q>> a configuration
    min_err,          \* nullspace_jnt_qpos_min_err: <<>> is inf, <<d>> squared distance
    step,             \* number of iterations of the loop of _solve_ik executed
    cur_poses,        \* local of _solve_ik
    previous_poses,   \* local of _solve_ik
    avg_linear_err,   \* local of _solve_ik: <<>> is unbound, <<sum, n>> the mean sum/n
    last,             \* per-target errors and displacements of the last step
    outcome,          \* how the loop of _solve_ik ended
    seed,             \* the values written to the bindings at the attempt's start
    attempts,         \* the Solutions of the finished attempts of the running call
    result,           \* what the last call returned
    q_entry,          \* the joints no binding of solve writes, as the call found them
    rng,              \* np.random: the stream of a seeded source, <<>> if unseeded
    prev,             \* the call before a repeated call: arguments and result
    mapper_call,      \* arguments of the last call of the mapper in _solve_ik
    model             \* the MJCF model given to __init__: the names it defines

\* models/hands: the conversions between controls and joint positions.
VARIABLES
    vec,              \* the vector at hand: the argument of the next conversion
    hist,             \* the conversions applied so far, each with its argument
    hand_raised       \* the last conversion raised ValueError

\* manipulation/tasks/reach.py: the fields of a Reach task and its episode.
VARIABLES
    steps_before_moving_target,  \* self._steps_before_moving_target
    max_solves,                  \* self._max_solves
    time,                        \* physics.data.time, in control timesteps
    solve_start_time,            \* self._solve_start_time
    total_solves,                \* self._total_solves
    reward_step_counter,         \* self._reward_step_counter
    registered_solve,            \* self._registered_solve
    exceeded_single_solve_time,  \* self._exceeded_single_solve_time
    reach_pc,                    \* position in the environment's loop
    streak,                      \* in-threshold steps in a row since the targets were set
    moved_after,                 \* streak when the targets were last moved: <<>> if never
    placed_solves,               \* total_solves when the current targets were set
    should_terminate             \* should_terminate_episode's last answer: <<>> if none yet

solverVars == <<fingers, nullspace_gain, qpos, pc, args, attempt, success, sol_qpos,
                min_err, step, cur_poses, previous_poses, avg_linear_err, last,
                outcome, seed, attempts, result, q_entry, rng, prev, mapper_call, model>>

handVars == <<vec, hist, hand_raised>>

reachVars == <<steps_before_moving_target, max_solves, time, solve_start_time,
               total_solves, reward_step_counter, registered_solve,
               exceeded_single_solve_time, reach_pc, streak, moved_after,
               placed_solves, should_terminate>>

vars == <<solverVars, handVars, reachVars>>

\* --------------------------------------------------------------- __init__
wrist_joint_names == JOINT_GROUP["WR"]

\* self._controllable_joints[finger]: the finger's joints, then the wrist's.
ControllableJoints(finger) == JOINT_GROUP[finger] \o wrist_joint_names

\* Joints bound by some self._joint_bindings[finger], given the fingers.
BoundJoints(fs) == UNION {SeqToSet(ControllableJoints(fs[i])) : i \in 1..Len(fs)}

\* self._all_joints_binding: every joint of JOINT_NAMES.
AllJoints == Joints

\* self._nullspace_joint_position_reference, doubled: 0.5 * (min + max) is
\* kept as min + max so that midpoints of odd ranges stay integral.
NullspaceReference2 == [j \in AllJoints |-> JointRange[j].min + JointRange[j].max]

\* ------------------------------------------------------------- kinematics
RECURSIVE SumSeq(_)
SumSeq(s) == IF s = <<>> THEN 0 ELSE Head(s) + SumSeq(Tail(s))

\* World position of the fingertip site of a finger (get_world_pose after
\* mj_kinematics): the sum of the joints on its kinematic path.
SitePosition(q, finger) ==
    SumSeq([i \in 1..Len(ControllableJoints(finger)) |-> q[ControllableJoints(finger)[i]]])

\* _compute_twist, linear part, in hundredths.
ComputeTwist(init_position, final_position) ==
    (LINEAR_VELOCITY_GAIN * (final_position - init_position)) \div INTEGRATION_TIMESTEP_SEC

\* nullspace_bias of _compute_joint_velocities, in hundredths: <<>> is None.
NullspaceBias_Always(gain, q) ==
    <<[j \in AllJoints |->
         (NULLSPACE_GAIN * (NullspaceReference2[j] - 2 * q[j]))
             \div (2 * INTEGRATION_TIMESTEP_SEC)]>>

NullspaceBias(gain, q) ==
    IF gain > 0
    THEN <<[j \in AllJoints |->
              (NULLSPACE_GAIN * (NullspaceReference2[j] - 2 * q[j]))
                  \div (2 * INTEGRATION_TIMESTEP_SEC)]>>
    ELSE <<>>

\* The velocity mapper built by _create_mapper: frame i is the fingertip of
\* fs[i] and takes target_velocities[i].  The finger joint of a frame
\* realises the frame's velocity; every other joint follows the bias.
MapperVelocities(fs, target_velocities, nullspace_bias) ==
    [j \in AllJoints |->
        IF \E i \in 1..Len(fs) : i <= Len(target_velocities) /\ j \in SeqToSet(JOINT_GROUP[fs[i]])
        THEN LET i == CHOOSE k \in 1..Len(fs) : j \in SeqToSet(JOINT_GROUP[fs[k]])
             IN  target_velocities[i]
        ELSE IF nullspace_bias = <<>> THEN 0 ELSE nullspace_bias[1][j]]

\* Hundredths to grid units, to the nearest unit (halves away from zero).
RoundNearest(h) ==
    IF h >= 0 THEN (2 * h + 100) \div 200 ELSE -((2 * (-h) + 100) \div 200)

\* mj_integratePos over one timestep.
IntegratePos(q, qdot) ==
    [j \in AllJoints |-> q[j] + RoundNearest(qdot[j] * INTEGRATION_TIMESTEP_SEC)]

ClipValue(x, lo, hi) == IF x < lo THEN lo ELSE IF x > hi THEN hi ELSE x

UpdatePhysicsData_LowerOnly(q) ==
    [j \in AllJoints |-> IF q[j] < JointRange[j].min THEN JointRange[j].min ELSE q[j]]

\* _update_physics_data: clip every joint of the hand to its range.
UpdatePhysicsData(q) ==
    [j \in AllJoints |-> ClipValue(q[j], JointRange[j].min, JointRange[j].max)]

\* Squared Euclidean distance to the nullspace reference, in doubled units
\* (the norm of line 193 is monotone in it).
NullspaceErr2(q) ==
    SumSeq([i \in 1..Len(JOINT_NAMES) |->
              (2 * q[JOINT_NAMES[i]] - NullspaceReference2[JOINT_NAMES[i]])
            * (2 * q[JOINT_NAMES[i]] - NullspaceReference2[JOINT_NAMES[i]])])

\* linear_err / (linear_change + 1e-10) > _PROGRESS_THRESHOLD on grid values:
\* with linear_change = 0 the quotient exceeds the threshold for every
\* positive error, otherwise the 1e-10 is below the grid resolution.
NotEnoughProgress(linear_err, linear_change) ==
    linear_err > PROGRESS_THRESHOLD * linear_change

\* solution.linear_err <= linear_tol for the mean <<sum, n>>.
WithinTol(avg, linear_tol) == avg[1] <= linear_tol * avg[2]

\* ------------------------------------------------------------- the inputs
TargetMappings(fs) ==
    {[i \in 1..Len(o) |-> <<o[i], v[i]>>] :
        o \in Orderings(SeqToSet(fs)), v \in [1..Len(fs) -> TargetValues]}

ArgChoices(fs) ==
    [target_positions : TargetMappings(fs),
     linear_tol : LinearTols,
     max_steps : 0..MaxSteps,
     early_stop : BOOLEAN,
     num_attempts : 0..MaxAttempts,
     stop_on_first_successful_attempt : BOOLEAN]

NoArgs ==
    [target_positions |-> <<>>, linear_tol |-> 0, max_steps |-> 0, early_stop |-> FALSE,
     num_attempts |-> 0, stop_on_first_successful_attempt |-> FALSE]

TargetFingers(a) == {a.target_positions[i][1] : i \in 1..Len(a.target_positions)}

\* Every grid value some joint can take.
JointValues == UNION {JointRange[j].min..JointRange[j].max : j \in Joints}

\* np.random.uniform(range[:, 0], range[:, 1]) for one finger binding.
UniformDraws(finger) ==
    {d \in [SeqToSet(ControllableJoints(finger)) -> JointValues] :
        \A j \in DOMAIN d : JointRange[j].min <= d[j] /\ d[j] <= JointRange[j].max}

\* One draw per finger binding, in the order of self._joint_bindings.
DrawChoices(fs) ==
    {d \in [1..Len(fs) -> UNION {UniformDraws(fs[i]) : i \in 1..Len(fs)}] :
        \A i \in 1..Len(fs) : d[i] \in UniformDraws(fs[i])}

\* joint_binding.qpos[:] = values[finger], finger after finger: a joint bound
\* by several fingers keeps the value written last.
RECURSIVE WriteBindings(_, _, _, _)
WriteBindings(q, fs, values, i) ==
    IF i > Len(fs) THEN q
    ELSE WriteBindings([j \in DOMAIN q |->
                           IF j \in DOMAIN values[i] THEN values[i][j] ELSE q[j]],
                       fs, values, i + 1)

\* inital_joint_configuration: np.zeros(num_joints) for every finger.
InitialJointConfiguration(fs) ==
    [i \in 1..Len(fs) |-> [j \in SeqToSet(ControllableJoints(fs[i])) |-> 0]]

\* The draws np.random can yield next: a seeded source that is replayed
\* yields its stream again, then (or unseeded) anything within the ranges.
NextDraws(fs, r) ==
    IF r /= <<>> /\ r[1].pos < Len(r[1].stream)
    THEN {r[1].stream[r[1].pos + 1]}
    ELSE DrawChoices(fs)

Consume(r, d) ==
    IF r = <<>> THEN r
    ELSE IF r[1].pos < Len(r[1].stream)
         THEN <<[r[1] EXCEPT !.pos = @ + 1]>>
         ELSE <<[stream |-> Append(r[1].stream, d), pos |-> r[1].pos + 1]>>

\* The entries of data.qpos that solve never seeds, the seeded ones zeroed.
Unseeded(fs, q) == [j \in DOMAIN q |-> IF j \in BoundJoints(fs) THEN 0 ELSE q[j]]

\* ------------------------------------------------- __init__: the lookups
\* Lines 92-95: the name of the fingertip site of a finger.
FINGER_FINGERTIP_SITE == [FF |-> "fftip_site", MF |-> "mftip_site"]

\* The models a solver may be constructed for: the joints and the sites
\* they define, among those of the hand.
ModelChoices ==
    [joint : SUBSET Joints,
     site : SUBSET {FINGER_FINGERTIP_SITE[f] : f \in DOMAIN FINGER_FINGERTIP_SITE}]

\* model.find(tag, name): <<>> is None.
Find(m, tag, name) == IF name \in m[tag] THEN <<name>> ELSE <<>>

FindJoints(m, names) == [i \in 1..Len(names) |-> Find(m, "joint", names[i])]

\* physics.bind of a list of elements raises on an element that is None.
BindRaises(elems) == \E i \in 1..Len(elems) : elems[i] = <<>>

\* Lines 69-127: the first exception __init__ raises for model m and the
\* fingers fs, "NONE" if it runs to its end.
ConstructionError_SiteAssertOnly(m, fs) ==
    IF \E i \in 1..Len(fs) : Find(m, "site", FINGER_FINGERTIP_SITE[fs[i]]) = <<>>
    THEN "AssertionError"
    ELSE "NONE"

ConstructionError(m, fs) ==
    IF BindRaises(FindJoints(m, wrist_joint_names))
    THEN "AttributeError"
    ELSE IF \E i \in 1..Len(fs) : Find(m, "site", FINGER_FINGERTIP_SITE[fs[i]]) = <<>>
    THEN "AssertionError"
    ELSE IF \E i \in 1..Len(JOINT_NAMES) : Find(m, "joint", JOINT_NAMES[i]) = <<>>
    THEN "AssertionError"
    ELSE IF \E i \in 1..Len(fs) : BindRaises(FindJoints(m, ControllableJoints(fs[i])))
    THEN "AttributeError"
    ELSE "NONE"

\* ------------------------------------------------------------------- Init
\* No conversion of the hand is under way.
HandParked ==
    /\ vec = <<>>
    /\ hist = <<>>
    /\ hand_raised = FALSE

\* No Reach task exists.
ReachParked ==
    /\ steps_before_moving_target = 0
    /\ max_solves = 0
    /\ time = 0
    /\ solve_start_time = 0
    /\ total_solves = 0
    /\ reward_step_counter = 0
    /\ registered_solve = FALSE
    /\ exceeded_single_solve_time = FALSE
    /\ reach_pc = "none"
    /\ streak = 0
    /\ moved_after = <<>>
    /\ placed_solves = 0
    /\ should_terminate = <<>>

\* The arguments of IKSolver(model, fingers, nullspace_gain=...) are chosen;
\* __init__ has not run yet.
Init ==
    /\ HandParked
    /\ ReachParked
    /\ model \in ModelChoices
    /\ fingers \in FingerChoices
    /\ nullspace_gain \in GainChoices
    /\ qpos = [j \in Joints |-> 0]
    /\ pc = "new"
    /\ args = NoArgs
    /\ attempt = 0
    /\ success = FALSE
    /\ sol_qpos = <<>>
    /\ min_err = <<>>
    /\ step = 0
    /\ cur_poses = <<>>
    /\ previous_poses = <<>>
    /\ avg_linear_err = <<>>
    /\ last = <<>>
    /\ outcome = "NONE"
    /\ seed = <<>>
    /\ attempts = <<>>
    /\ result = <<>>
    /\ q_entry = [j \in Joints |-> 0]
    /\ rng = <<>>
    /\ prev = <<>>
    /\ mapper_call = <<>>

\* ---------------------------------------------------------------- _solve_ik
\* Lines 286-289: the two break conditions, in the order of the code.
BreakReason_NoStall(early_stop, close_enough, not_enough_progress) ==
    IF early_stop /\ close_enough THEN "CONVERGED" ELSE "RUNNING"

BreakReason_AnyClose(early_stop, close_enough, not_enough_progress) ==
    IF close_enough THEN "CONVERGED"
    ELSE IF not_enough_progress THEN "STALLED"
    ELSE "RUNNING"

BreakReason(early_stop, close_enough, not_enough_progress) ==
    IF early_stop /\ close_enough THEN "CONVERGED"
    ELSE IF not_enough_progress THEN "STALLED"
    ELSE "RUNNING"

\* Lines 253-283: avg_linear_err, the per-target errors summed (line 259) and
\* divided by the number of targets (line 283), kept as <<sum, count>>.
AvgLinearErr_Max(linear_errs) ==
    <<CHOOSE m \in {linear_errs[i] : i \in DOMAIN linear_errs} :
          \A i \in DOMAIN linear_errs : linear_errs[i] <= m, 1>>

AvgLinearErr(linear_errs) == <<SumSeq(linear_errs), Len(linear_errs)>>

\* Lines 232-289: one iteration of the loop of _solve_ik from configuration
\* q, for the solver (fs, gain) and the arguments a.
IkStep_ErrorsBeforeClamp(fs, gain, a, q, cur_p, prev_p) ==
    LET tp == a.target_positions
        twists == [i \in 1..Len(tp) |-> ComputeTwist(cur_p[tp[i][1]], tp[i][2])]
        nullspace_bias == NullspaceBias(gain, q)
        qdot_sol == MapperVelocities(fs, twists, nullspace_bias)
        q0 == IntegratePos(q, qdot_sol)
        q1 == UpdatePhysicsData(q0)
        cur == [f \in TargetFingers(a) |-> SitePosition(q0, f)]
        errs == [i \in 1..Len(tp) |->
                   [finger |-> tp[i][1],
                    linear_err |-> Abs(tp[i][2] - cur[tp[i][1]]),
                    linear_change |-> Abs(cur[tp[i][1]] - prev_p[tp[i][1]])]]
        close_enough == \A i \in 1..Len(tp) : ~(errs[i].linear_err > a.linear_tol)
        not_enough_progress ==
            \E i \in 1..Len(tp) : NotEnoughProgress(errs[i].linear_err, errs[i].linear_change)
    IN  [qpos |-> q1,
         poses |-> cur,
         errs |-> errs,
         avg_linear_err |-> AvgLinearErr([i \in 1..Len(tp) |-> errs[i].linear_err]),
         brk |-> BreakReason(a.early_stop, close_enough, not_enough_progress),
         call |-> [data_qpos |-> q, target_velocities |-> twists,
                   nullspace_bias |-> nullspace_bias]]

IkStep(fs, gain, a, q, cur_p, prev_p) ==
    LET tp == a.target_positions
        twists == [i \in 1..Len(tp) |-> ComputeTwist(cur_p[tp[i][1]], tp[i][2])]
        nullspace_bias == NullspaceBias(gain, q)
        qdot_sol == MapperVelocities(fs, twists, nullspace_bias)
        q1 == UpdatePhysicsData(IntegratePos(q, qdot_sol))
        cur == [f \in TargetFingers(a) |-> SitePosition(q1, f)]
        errs == [i \in 1..Len(tp) |->
                   [finger |-> tp[i][1],
                    linear_err |-> Abs(tp[i][2] - cur[tp[i][1]]),
                    linear_change |-> Abs(cur[tp[i][1]] - prev_p[tp[i][1]])]]
        close_enough == \A i \in 1..Len(tp) : ~(errs[i].linear_err > a.linear_tol)
        not_enough_progress ==
            \E i \in 1..Len(tp) : NotEnoughProgress(errs[i].linear_err, errs[i].linear_change)
    IN  [qpos |-> q1,
         poses |-> cur,
         errs |-> errs,
         avg_linear_err |-> AvgLinearErr([i \in 1..Len(tp) |-> errs[i].linear_err]),
         brk |-> BreakReason(a.early_stop, close_enough, not_enough_progress),
         call |-> [data_qpos |-> q, target_velocities |-> twists,
                   nullspace_bias |-> nullspace_bias]]

\* _solve_ik run to its end from configuration q: the Solution it returns.
RECURSIVE RunIk(_, _, _, _, _, _)
RunIk(fs, gain, a, q, avg, k) ==
    IF k >= a.max_steps THEN [qpos |-> q, linear_err |-> avg]
    ELSE LET poses == [f \in TargetFingers(a) |-> SitePosition(q, f)]
             r == IkStep(fs, gain, a, q, poses, poses)
         IN  IF r.brk /= "RUNNING" THEN [qpos |-> r.qpos, linear_err |-> r.avg_linear_err]
             ELSE RunIk(fs, gain, a, r.qpos, r.avg_linear_err, k + 1)

\* ------------------------------------------------------------------ solve
\* Line 197: a successful attempt replaces the retained one only if it is
\* strictly closer to the nullspace reference (min_err = <<>> is np.inf).
IsCloser_OrEqual(nullspace_jnt_qpos_err, nullspace_jnt_qpos_min_err) ==
    nullspace_jnt_qpos_min_err = <<>> \/ nullspace_jnt_qpos_err <= nullspace_jnt_qpos_min_err[1]

IsCloser(nullspace_jnt_qpos_err, nullspace_jnt_qpos_min_err) ==
    nullspace_jnt_qpos_min_err = <<>> \/ nullspace_jnt_qpos_err < nullspace_jnt_qpos_min_err[1]

\* Line 201: leave the attempt loop.
StopAttempts_Never(succ, stop_on_first_successful_attempt) == FALSE

StopAttempts(succ, stop_on_first_successful_attempt) ==
    succ /\ stop_on_first_successful_attempt

\* __init__, lines 48-133: the solver exists afterwards unless a lookup
\* failed.
Construct ==
    /\ pc = "new"
    /\ pc' = IF ConstructionError(model, fingers) = "NONE" THEN "idle" ELSE "aborted"
    /\ UNCHANGED <<fingers, nullspace_gain, qpos, args, attempt, success, sol_qpos,
                   min_err, step, cur_poses, previous_poses, avg_linear_err, last,
                   outcome, seed, attempts, result, q_entry, rng, prev, mapper_call>>
    /\ UNCHANGED <<model, handVars, reachVars>>

\* Lines 160-167: the locals of a fresh call.
EnterSolve(a) ==
    /\ args' = a
    /\ attempt' = 0
    /\ success' = FALSE
    /\ sol_qpos' = <<>>
    /\ min_err' = <<>>
    /\ step' = 0
    /\ cur_poses' = <<>>
    /\ previous_poses' = <<>>
    /\ avg_linear_err' = <<>>
    /\ last' = <<>>
    /\ outcome' = "NONE"
    /\ seed' = <<>>
    /\ attempts' = <<>>
    /\ result' = <<>>
    /\ q_entry' = Unseeded(fingers, qpos)
    /\ mapper_call' = <<>>
    /\ pc' = IF a.num_attempts > 0 THEN "loop" ELSE "ret"
    /\ UNCHANGED <<fingers, nullspace_gain, qpos>>
    /\ UNCHANGED <<model, handVars, reachVars>>

Solve ==
    /\ pc = "idle"
    /\ \E a \in ArgChoices(fingers) : EnterSolve(a)
    /\ UNCHANGED <<rng, prev>>

\* Lines 170-180 and 217-227: seed the bound joints, enter _solve_ik and
\* read the poses of the targets' frames.
SeedAttempt ==
    /\ pc = "loop"
    /\ attempt < args.num_attempts
    /\ \E d \in IF attempt = 0 THEN {InitialJointConfiguration(fingers)}
                ELSE NextDraws(fingers, rng) :
          LET q == WriteBindings(qpos, fingers, d, 1)
              poses == [f \in TargetFingers(args) |-> SitePosition(q, f)]
          IN  /\ qpos' = q
              /\ cur_poses' = poses
              /\ previous_poses' = poses
              /\ seed' = d
              /\ rng' = IF attempt = 0 THEN rng ELSE Consume(rng, d)
    /\ step' = 0
    /\ avg_linear_err' = <<>>
    /\ last' = <<>>
    /\ mapper_call' = <<>>
    /\ outcome' = IF args.max_steps = 0 THEN "EXHAUSTED" ELSE "RUNNING"
    /\ pc' = IF args.max_steps = 0 THEN "end" ELSE "ik"
    /\ UNCHANGED <<fingers, nullspace_gain, args, attempt, success, sol_qpos,
                   min_err, attempts, result, q_entry, prev>>
    /\ UNCHANGED <<model, handVars, reachVars>>

\* Lines 231-289: one iteration of the loop of _solve_ik on the solver.
Step ==
    /\ pc = "ik"
    /\ step < args.max_steps
    /\ LET r == IkStep(fingers, nullspace_gain, args, qpos, cur_poses, previous_poses)
           o == IF r.brk /= "RUNNING" THEN r.brk
                ELSE IF step + 1 >= args.max_steps THEN "EXHAUSTED"
                ELSE "RUNNING"
       IN  /\ qpos' = r.qpos
           /\ cur_poses' = r.poses
           /\ previous_poses' = r.poses
           /\ avg_linear_err' = r.avg_linear_err
           /\ last' = r.errs
           /\ mapper_call' = <<r.call>>
           /\ outcome' = o
           /\ pc' = IF o = "RUNNING" THEN "ik" ELSE "end"
    /\ step' = step + 1
    /\ UNCHANGED <<fingers, nullspace_gain, args, attempt, success, sol_qpos,
                   min_err, seed, attempts, result, q_entry, rng, prev>>
    /\ UNCHANGED <<model, handVars, reachVars>>

\* Lines 291-292 and 189-202: the attempt's Solution and its bookkeeping.
EndAttempt ==
    /\ pc = "end"
    /\ avg_linear_err /= <<>>
    /\ LET ok == WithinTol(avg_linear_err, args.linear_tol)
           nullspace_jnt_qpos_err == NullspaceErr2(qpos)
           better == ok /\ IsCloser(nullspace_jnt_qpos_err, min_err)
           succ == success \/ ok
           brk == StopAttempts(succ, args.stop_on_first_successful_attempt)
       IN  /\ success' = succ
           /\ min_err' = IF better THEN <<nullspace_jnt_qpos_err>> ELSE min_err
           /\ sol_qpos' = IF better THEN <<qpos>> ELSE sol_qpos
           /\ attempts' = Append(attempts,
                 [qpos |-> qpos, linear_err |-> avg_linear_err, steps |-> step,
                  errs |-> last, outcome |-> outcome, ok |-> ok])
           /\ attempt' = IF brk THEN attempt ELSE attempt + 1
           /\ pc' = IF brk \/ attempt + 1 >= args.num_attempts THEN "ret" ELSE "loop"
    /\ mapper_call' = <<>>
    /\ UNCHANGED <<fingers, nullspace_gain, qpos, args, step, cur_poses, previous_poses,
                   avg_linear_err, last, outcome, seed, result, q_entry, rng, prev>>
    /\ UNCHANGED <<model, handVars, reachVars>>

\* Line 292 with max_steps = 0: avg_linear_err was never assigned, the read
\* raises UnboundLocalError, which leaves solve.
RaiseUnbound ==
    /\ pc = "end"
    /\ avg_linear_err = <<>>
    /\ pc' = "raised"
    /\ UNCHANGED <<fingers, nullspace_gain, qpos, args, attempt, success, sol_qpos,
                   min_err, step, cur_poses, previous_poses, avg_linear_err, last,
                   outcome, seed, attempts, result, q_entry, rng, prev, mapper_call>>
    /\ UNCHANGED <<model, handVars, reachVars>>

\* Lines 204-207.
Return ==
    /\ pc = "ret"
    /\ result' = sol_qpos
    /\ pc' = "done"
    /\ UNCHANGED <<fingers, nullspace_gain, qpos, args, attempt, success, sol_qpos,
                   min_err, step, cur_poses, previous_poses, avg_linear_err, last,
                   outcome, seed, attempts, q_entry, rng, prev, mapper_call>>
    /\ UNCHANGED <<model, handVars, reachVars>>

\* The frame of solve is gone (returned or unwound): only the solver's own
\* fields and its physics data outlive the call.
Release ==
    /\ pc \in {"done", "raised"}
    /\ pc' = "idle"
    /\ args' = NoArgs
    /\ attempt' = 0
    /\ success' = FALSE
    /\ sol_qpos' = <<>>
    /\ min_err' = <<>>
    /\ step' = 0
    /\ cur_poses' = <<>>
    /\ previous_poses' = <<>>
    /\ avg_linear_err' = <<>>
    /\ last' = <<>>
    /\ outcome' = "NONE"
    /\ seed' = <<>>
    /\ attempts' = <<>>
    /\ result' = <<>>
    /\ q_entry' = Unseeded(fingers, qpos)
    /\ mapper_call' = <<>>
    /\ UNCHANGED <<fingers, nullspace_gain, qpos, rng, prev>>
    /\ UNCHANGED <<model, handVars, reachVars>>

Next == Construct \/ Solve \/ SeedAttempt \/ Step \/ EndAttempt \/ RaiseUnbound \/ Return \/ Release

Spec == Init /\ [][Next]_vars

\* ----------------------------------------------------- repeating a call
\* np.random.seed(s); solve(a): the first call on a fresh solver, with a
\* seeded random source.
SeededSolve ==
    /\ pc = "idle"
    /\ rng = <<>>
    /\ rng' = <<[stream |-> <<>>, pos |-> 0]>>
    /\ \E a \in ArgChoices(fingers) : EnterSolve(a)
    /\ UNCHANGED prev

\* np.random.seed(s); solve(a) again: same solver, same arguments, same
\* seed, so the random source yields the same stream.
SolveAgain ==
    /\ pc \in {"done", "raised"}
    /\ prev = <<>>
    /\ prev' = <<[args |-> args, result |-> result, raised |-> pc = "raised"]>>
    /\ rng' = <<[rng[1] EXCEPT !.pos = 0]>>
    /\ EnterSolve(args)

NextReplay ==
    Construct \/ SeededSolve \/ SolveAgain \/ SeedAttempt \/ Step \/ EndAttempt \/ RaiseUnbound \/ Return

SpecReplay == Init /\ [][NextReplay]_vars

\* =================================================== models/hands: conversions
\* The actuators of the hand by group, in the order of the control vector
\* (shadow_hand_e_test.py, lines 50-55): the number of controls of the
\* group, and whether its last control drives two coupled joints.
CONTROL_GROUPS ==
    <<[name |-> "WR", controls |-> 2, coupled |-> FALSE],
      [name |-> "FF", controls |-> 3, coupled |-> TRUE],
      [name |-> "MF", controls |-> 3, coupled |-> TRUE],
      [name |-> "RF", controls |-> 3, coupled |-> TRUE],
      [name |-> "LF", controls |-> 4, coupled |-> TRUE],
      [name |-> "TH", controls |-> 5, coupled |-> FALSE]>>

\* Joints of a group: a coupled group has one joint more than controls.
GroupJoints(g) == IF g.coupled THEN g.controls + 1 ELSE g.controls

NUM_ACTUATORS == SumSeq([i \in 1..Len(CONTROL_GROUPS) |-> CONTROL_GROUPS[i].controls])

NUM_JOINTS == SumSeq([i \in 1..Len(CONTROL_GROUPS) |-> GroupJoints(CONTROL_GROUPS[i])])

\* Index before the first control, and before the first joint, of group k.
ControlOffset(k) == SumSeq([i \in 1..(k - 1) |-> CONTROL_GROUPS[i].controls])

JointOffset(k) == SumSeq([i \in 1..(k - 1) |-> GroupJoints(CONTROL_GROUPS[i])])

\* Numbers are binary floats, whose halving is exact.  The grid counts
\* halves of the control unit: a control is an even integer, its half an
\* integer.
MaxConversions == 2

VectorLengths ==
    {1, NUM_ACTUATORS - 1, NUM_ACTUATORS, NUM_ACTUATORS + 1, NUM_JOINTS, NUM_JOINTS + 1}

VectorChoices ==
    {[i \in 1..n |-> 2 * (((a * i + b) % 5) - 2)] : n \in VectorLengths, a \in 0..3, b \in 0..4}

\* The length check of a conversion: ValueError unless the length is n.
WrongLength_ShorterOnly(v, n) == Len(v) < n

WrongLength(v, n) == Len(v) /= n

\* _split_last of the test (lines 69-74): the controls of a coupled group
\* but the last, then the two halves of the last.
SplitLast_Whole(ctrl) ==
    SubSeq(ctrl, 1, Len(ctrl) - 1) \o <<ctrl[Len(ctrl)], ctrl[Len(ctrl)]>>

SplitLast(ctrl) ==
    SubSeq(ctrl, 1, Len(ctrl) - 1) \o <<ctrl[Len(ctrl)] \div 2, ctrl[Len(ctrl)] \div 2>>

\* _sum_last of the test (lines 120-124): the joints of a coupled group but
\* the last two, then the sum of the last two.
SumLast(q) ==
    SubSeq(q, 1, Len(q) - 2) \o <<q[Len(q) - 1] + q[Len(q)]>>

\* control_to_joint_positions on a vector of NUM_ACTUATORS controls, group
\* by group from group k on.
RECURSIVE ControlToJointPositionsFrom(_, _)
ControlToJointPositionsFrom(control, k) ==
    IF k > Len(CONTROL_GROUPS) THEN <<>>
    ELSE LET g == CONTROL_GROUPS[k]
             ctrl == SubSeq(control, ControlOffset(k) + 1, ControlOffset(k) + g.controls)
         IN  (IF g.coupled THEN SplitLast(ctrl) ELSE ctrl)
                 \o ControlToJointPositionsFrom(control, k + 1)

\* joint_positions_to_control on a vector of NUM_JOINTS positions.
RECURSIVE JointPositionsToControlFrom(_, _)
JointPositionsToControlFrom(qp, k) ==
    IF k > Len(CONTROL_GROUPS) THEN <<>>
    ELSE LET g == CONTROL_GROUPS[k]
             q == SubSeq(qp, JointOffset(k) + 1, JointOffset(k) + GroupJoints(g))
         IN  (IF g.coupled THEN SumLast(q) ELSE q)
                 \o JointPositionsToControlFrom(qp, k + 1)

\* The conversions: <<>> is ValueError, <<v>> the vector returned.
ControlToJointPositionsOf(control) ==
    IF WrongLength(control, NUM_ACTUATORS) THEN <<>>
    ELSE <<ControlToJointPositionsFrom(control, 1)>>

JointPositionsToControlOf(qp) ==
    IF WrongLength(qp, NUM_JOINTS) THEN <<>>
    ELSE <<JointPositionsToControlFrom(qp, 1)>>

\* No solver is under construction.
SolverParked ==
    /\ model = [joint |-> {}, site |-> {}]
    /\ fingers = <<>>
    /\ nullspace_gain = 0
    /\ qpos = [j \in Joints |-> 0]
    /\ pc = "none"
    /\ args = NoArgs
    /\ attempt = 0
    /\ success = FALSE
    /\ sol_qpos = <<>>
    /\ min_err = <<>>
    /\ step = 0
    /\ cur_poses = <<>>
    /\ previous_poses = <<>>
    /\ avg_linear_err = <<>>
    /\ last = <<>>
    /\ outcome = "NONE"
    /\ seed = <<>>
    /\ attempts = <<>>
    /\ result = <<>>
    /\ q_entry = [j \in Joints |-> 0]
    /\ rng = <<>>
    /\ prev = <<>>
    /\ mapper_call = <<>>

InitHand ==
    /\ SolverParked
    /\ ReachParked
    /\ vec \in VectorChoices
    /\ hist = <<>>
    /\ hand_raised = FALSE

\* One call of a conversion on the vector at hand; what it returns becomes
\* the vector at hand.
Convert(op, out) ==
    /\ Len(hist) < MaxConversions
    /\ hist' = Append(hist, [op |-> op, arg |-> vec, out |-> out])
    /\ hand_raised' = (out = <<>>)
    /\ vec' = IF out = <<>> THEN vec ELSE out[1]
    /\ UNCHANGED <<solverVars, reachVars>>

ControlToJointPositions ==
    Convert("control_to_joint_positions", ControlToJointPositionsOf(vec))

JointPositionsToControl ==
    Convert("joint_positions_to_control", JointPositionsToControlOf(vec))

NextHand == ControlToJointPositions \/ JointPositionsToControl

SpecHand == InitHand /\ [][NextHand]_vars

\* ============================================ manipulation/tasks/reach.py
\* Time is counted in control timesteps.  _MAX_TIME_SINGLE_SOLVE seconds and
\* the episode's time limit are so many control timesteps, for a control
\* timestep chosen long enough to keep both small.
MaxTimeSingleSolve == 2
MaxTime == 7

\* steps_before_moving_target and max_solves of Reach.__init__.
StepsBeforeChoices == {1, 2, 3}
MaxSolvesChoices == {0, 1, 2}

\* A Reach task has been constructed (lines 113-114); no episode yet.
InitReach ==
    /\ SolverParked
    /\ HandParked
    /\ steps_before_moving_target \in StepsBeforeChoices
    /\ max_solves \in MaxSolvesChoices
    /\ time = 0
    /\ solve_start_time = 0
    /\ total_solves = 0
    /\ reward_step_counter = 0
    /\ registered_solve = FALSE
    /\ exceeded_single_solve_time = FALSE
    /\ reach_pc = "reset"
    /\ streak = 0
    /\ moved_after = <<>>
    /\ placed_solves = 0
    /\ should_terminate = <<>>

\* Lines 179-190, on the environment's reset: the physics starts over and
\* targets are sampled.
InitializeEpisode ==
    /\ reach_pc \in {"reset", "terminated"}
    /\ time' = 0
    /\ total_solves' = 0
    /\ reward_step_counter' = 0
    /\ registered_solve' = FALSE
    /\ exceeded_single_solve_time' = FALSE
    /\ solve_start_time' = 0
    /\ streak' = 0
    /\ moved_after' = <<>>
    /\ placed_solves' = 0
    /\ should_terminate' = <<>>
    /\ reach_pc' = "before_step"
    /\ UNCHANGED <<steps_before_moving_target, max_solves>>
    /\ UNCHANGED <<solverVars, handVars>>

\* Line 211: the targets are due to be moved.
TargetsDue(counter, steps_before) == counter >= steps_before

\* Lines 203-216.
BeforeStep ==
    /\ reach_pc = "before_step"
    /\ IF TargetsDue(reward_step_counter, steps_before_moving_target)
       THEN /\ reward_step_counter' = 0
            /\ registered_solve' = FALSE
            /\ exceeded_single_solve_time' = FALSE
            /\ solve_start_time' = time
            /\ moved_after' = <<streak>>
            /\ placed_solves' = total_solves
            /\ streak' = 0
       ELSE UNCHANGED <<reward_step_counter, registered_solve, exceeded_single_solve_time,
                        solve_start_time, moved_after, streak, placed_solves>>
    /\ reach_pc' = "substeps"
    /\ UNCHANGED <<steps_before_moving_target, max_solves, time, total_solves,
                   should_terminate>>
    /\ UNCHANGED <<solverVars, handVars>>

\* The physics substeps of one control step.
Substeps ==
    /\ reach_pc = "substeps"
    /\ time' = time + 1
    /\ reach_pc' = "after_step"
    /\ UNCHANGED <<steps_before_moving_target, max_solves, solve_start_time, total_solves,
                   reward_step_counter, registered_solve, exceeded_single_solve_time,
                   streak, moved_after, placed_solves, should_terminate>>
    /\ UNCHANGED <<solverVars, handVars>>

\* Lines 228-230: a placement of the targets is counted as solved once.
RegisterSolve_EveryStep(solves, registered) == solves + 1

RegisterSolve(solves, registered) == IF registered THEN solves ELSE solves + 1

\* Lines 218-234; all_within is np.all(self._distance <= threshold).
AfterStep ==
    /\ reach_pc = "after_step"
    /\ \E all_within \in BOOLEAN :
          IF all_within
          THEN /\ reward_step_counter' = reward_step_counter + 1
               /\ total_solves' = RegisterSolve(total_solves, registered_solve)
               /\ registered_solve' = TRUE
               /\ streak' = streak + 1
               /\ UNCHANGED exceeded_single_solve_time
          ELSE /\ exceeded_single_solve_time' =
                     IF time - solve_start_time > MaxTimeSingleSolve
                     THEN TRUE ELSE exceeded_single_solve_time
               /\ streak' = 0
               /\ UNCHANGED <<reward_step_counter, total_solves, registered_solve>>
    /\ reach_pc' = "terminate?"
    /\ UNCHANGED <<steps_before_moving_target, max_solves, time, solve_start_time,
                   moved_after, placed_solves, should_terminate>>
    /\ UNCHANGED <<solverVars, handVars>>

\* Lines 272-276.
ShouldTerminate_Above(solves, limit, exceeded) == solves > limit \/ exceeded

ShouldTerminate(solves, limit, exceeded) == solves >= limit \/ exceeded

\* The environment ends the episode when the task asks for it or the time
\* limit is reached (lines 286-288).
ShouldTerminateEpisode ==
    /\ reach_pc = "terminate?"
    /\ should_terminate' =
          <<ShouldTerminate(total_solves, max_solves, exceeded_single_solve_time)>>
    /\ reach_pc' =
          IF ShouldTerminate(total_solves, max_solves, exceeded_single_solve_time)
             \/ time >= MaxTime
          THEN "terminated" ELSE "before_step"
    /\ UNCHANGED <<steps_before_moving_target, max_solves, time, solve_start_time,
                   total_solves, reward_step_counter, registered_solve,
                   exceeded_single_solve_time, streak, moved_after, placed_solves>>
    /\ UNCHANGED <<solverVars, handVars>>

NextReach ==
    InitializeEpisode \/ BeforeStep \/ Substeps \/ AfterStep \/ ShouldTerminateEpisode

SpecReach == InitReach /\ [][NextReach]_vars

\* ================================================================ claims
Successful(atts) == {i \in 1..Len(atts) : atts[i].ok}

\* The earliest successful attempt at minimal distance to the reference.
Retained(atts) ==
    CHOOSE i \in Successful(atts) :
        \A j \in Successful(atts) :
            \/ NullspaceErr2(atts[i].qpos) < NullspaceErr2(atts[j].qpos)
            \/ NullspaceErr2(atts[i].qpos) = NullspaceErr2(atts[j].qpos) /\ i <= j

\* C1: once an attempt of the call has succeeded, the configuration solve
\* retains, and returns, is the final configuration of the earliest of the
\* successful attempts that are nearest to the nullspace reference, whatever
\* their linear errors.
C1_NullspaceSelection ==
    Successful(attempts) /= {} =>
        /\ sol_qpos = <<attempts[Retained(attempts)].qpos>>
        /\ pc = "done" => result = <<attempts[Retained(attempts)].qpos>>

\* A later successful attempt, strictly closer but with a larger linear
\* error, replaced the one retained before it.
C1_Witness ==
    /\ pc = "done"
    /\ \E i, j \in Successful(attempts) :
          /\ i < j
          /\ NullspaceErr2(attempts[j].qpos) < NullspaceErr2(attempts[i].qpos)
          /\ attempts[j].linear_err[1] > attempts[i].linear_err[1]
          /\ result = <<attempts[j].qpos>>

\* C2: a call that ends returns None exactly when none of its attempts
\* succeeded, it ends by returning and not by raising, and it returns None
\* only after num_attempts attempts.
C2_NoneIffNoSuccess ==
    pc \in {"done", "raised"} =>
        /\ pc = "done"
        /\ (result = <<>>) <=> (Successful(attempts) = {})
        /\ result = <<>> => Len(attempts) = args.num_attempts

\* C3: with stop_on_first_successful_attempt no attempt starts after a
\* successful one, and the call returns that attempt's configuration.
C3_StopOnFirstSuccess ==
    args.stop_on_first_successful_attempt =>
        /\ \A i \in Successful(attempts) : i = Len(attempts)
        /\ pc \in {"loop", "ik", "end"} => Successful(attempts) = {}
        /\ (pc = "done" /\ Successful(attempts) /= {}) =>
               result = <<attempts[Len(attempts)].qpos>>

\* Attempt 0 succeeded, more attempts were allowed, one was executed.
C3_Witness ==
    /\ pc = "done"
    /\ args.stop_on_first_successful_attempt
    /\ args.num_attempts > 1
    /\ Len(attempts) = 1
    /\ attempts[1].ok
    /\ result = <<attempts[1].qpos>>

\* The state right after an attempt was seeded, before its first step.
AtAttemptStart == pc \in {"ik", "end"} /\ step = 0

\* Joint j was written by the seeding of the running attempt.
Seeded(j) == \E i \in 1..Len(seed) : j \in DOMAIN seed[i]

InLimits(q) ==
    \A j \in AllJoints : JointRange[j].min <= q[j] /\ q[j] <= JointRange[j].max

\* C4: at the start of attempt 0 every joint of the configuration is at
\* zero; at the start of a later attempt every joint holds a value drawn
\* for this attempt, within its range.
C4_EveryJointSeeded ==
    AtAttemptStart =>
        \A j \in AllJoints :
            /\ attempt = 0 => qpos[j] = 0
            /\ attempt > 0 => Seeded(j) /\ InLimits(qpos)

\* C5: after a step (integration, then _update_physics_data) every joint
\* is within its limits, and so is every Solution, every retained and every
\* returned configuration.
C5_JointLimits ==
    /\ (pc \in {"ik", "end"} /\ step > 0) => InLimits(qpos)
    /\ \A i \in 1..Len(attempts) : InLimits(attempts[i].qpos)
    /\ sol_qpos /= <<>> => InLimits(sol_qpos[1])
    /\ result /= <<>> => InLimits(result[1])

\* A far target drove a joint into its upper limit.
C5_Witness ==
    /\ pc \in {"ik", "end"}
    /\ step > 0
    /\ \E i \in 1..Len(last) :
          /\ last[i].linear_err > 40
          /\ \E j \in SeqToSet(JOINT_GROUP[last[i].finger]) : qpos[j] = JointRange[j].max

\* C6: a call repeated on the same solver with the same arguments and the
\* same random draws returns the same configuration as the first one.
C6_ReplayDeterminism ==
    (prev /= <<>> /\ pc \in {"done", "raised"}) =>
        /\ (pc = "raised") = prev[1].raised
        /\ result = prev[1].result

\* C7: the Solution of an attempt is the one _solve_ik computes from the
\* attempt's seed and the targets alone: the configuration the call found,
\* overwritten by the seed, and nothing written by earlier attempts.
C7_AttemptsIndependent ==
    (pc = "end" /\ avg_linear_err /= <<>>) =>
        [qpos |-> qpos, linear_err |-> avg_linear_err]
            = RunIk(fingers, nullspace_gain, args,
                    WriteBindings(q_entry, fingers, seed, 1), <<>>, 0)

\* Some target's error exceeds the threshold times its displacement.
StalledIn(errs) ==
    \E i \in 1..Len(errs) : errs[i].linear_err > PROGRESS_THRESHOLD * errs[i].linear_change

AllCloseIn(errs, tol) == \A i \in 1..Len(errs) : errs[i].linear_err <= tol

\* C8: no step follows a step in which some target's error over its
\* displacement exceeded the threshold; in particular an attempt that does
\* not move while its error is positive ends with its first step.
C8_StallEndsAttempt ==
    /\ (pc = "ik" /\ step > 0) => ~StalledIn(last)
    /\ \A i \in 1..Len(attempts) :
          (attempts[i].steps < args.max_steps /\ ~(args.early_stop /\ AllCloseIn(attempts[i].errs, args.linear_tol)))
              => StalledIn(attempts[i].errs)

\* An attempt that could not move ended after one of several allowed steps.
C8_Witness ==
    /\ pc = "end"
    /\ step = 1
    /\ args.max_steps > 1
    /\ ~(args.early_stop /\ AllCloseIn(last, args.linear_tol))
    /\ \E i \in 1..Len(last) : last[i].linear_change = 0 /\ last[i].linear_err > 0

\* C9: whatever the step budget, when the loop of _solve_ik is over the
\* attempt has a mean error to return and returns a Solution; it never ends
\* in an exception.
C9_AlwaysSolution ==
    /\ pc = "end" => avg_linear_err /= <<>>
    /\ pc /= "raised"

\* C10: an attempt ends before its budget without a stall only if
\* early_stop is set and every target is within tolerance; without
\* early_stop it ends only at max_steps or on a stall; an attempt ended by
\* convergence is successful.
C10_Convergence ==
    /\ (pc = "end" /\ step > 0 /\ step < args.max_steps /\ ~StalledIn(last))
           => (args.early_stop /\ AllCloseIn(last, args.linear_tol))
    /\ (pc = "end" /\ ~args.early_stop) => (step = args.max_steps \/ StalledIn(last))
    /\ outcome = "CONVERGED" => (args.early_stop /\ AllCloseIn(last, args.linear_tol))
    /\ \A i \in 1..Len(attempts) :
          (args.early_stop /\ AllCloseIn(attempts[i].errs, args.linear_tol)) => attempts[i].ok
    /\ \A i \in 1..Len(attempts) : attempts[i].outcome = "CONVERGED" => attempts[i].ok

\* An attempt ended by convergence before its budget, without a stall.
C10_Witness ==
    /\ pc = "end"
    /\ args.early_stop
    /\ step > 0
    /\ step < args.max_steps
    /\ AllCloseIn(last, args.linear_tol)
    /\ ~StalledIn(last)

\* C11: an attempt counts as successful exactly when its final linear error
\* is at most linear_tol, where that error is the arithmetic mean over the
\* targets of the per-target position errors of the attempt's last step (not
\* their maximum) and is never negative; solve reports success exactly when
\* some attempt was successful.
C11_SuccessIffMeanWithinTol ==
    /\ \A i \in 1..Len(attempts) :
          LET att == attempts[i]
              n == Len(att.errs)
              total == SumSeq([k \in 1..n |-> att.errs[k].linear_err])
          IN  /\ n = Len(args.target_positions)
              /\ att.linear_err = <<total, n>>
              /\ \A k \in 1..n : att.errs[k].linear_err >= 0
              /\ total >= 0
              /\ att.ok <=> (total <= args.linear_tol * n)
    /\ pc \in {"loop", "ret", "done"} => (success <=> Successful(attempts) /= {})

\* A successful attempt one of whose targets is farther than linear_tol: the
\* mean passes where the maximum would not.
C11_Witness ==
    \E i \in 1..Len(attempts) :
        /\ attempts[i].ok
        /\ \E k \in 1..Len(attempts[i].errs) :
              attempts[i].errs[k].linear_err > args.linear_tol

\* The target position args gives for a finger.
TargetOf(a, finger) ==
    LET i == CHOOSE k \in 1..Len(a.target_positions) : a.target_positions[k][1] = finger
    IN  a.target_positions[i][2]

\* C12: in every step the nullspace bias passed to the mapper is
\* gain * (reference - current) / dt over all joints, gain being the
\* nullspace_gain the solver was constructed with, for every gain > 0.
C12_BiasUsesConstructedGain ==
    (mapper_call /= <<>> /\ nullspace_gain > 0) =>
        /\ mapper_call[1].nullspace_bias /= <<>>
        /\ \A j \in AllJoints :
              mapper_call[1].nullspace_bias[1][j] =
                  (nullspace_gain * (NullspaceReference2[j] - 2 * mapper_call[1].data_qpos[j]))
                      \div (2 * INTEGRATION_TIMESTEP_SEC)

\* C13: a solver constructed with nullspace gain 0 passes no bias to the
\* mapper in any step of any attempt; a solver constructed with a gain
\* greater than 0 passes a bias in every step.
C13_BiasOnlyWithPositiveGain ==
    mapper_call /= <<>> =>
        /\ nullspace_gain = 0 => mapper_call[1].nullspace_bias = <<>>
        /\ nullspace_gain > 0 => mapper_call[1].nullspace_bias /= <<>>

\* A second step of a later attempt of a solver with gain 0.
C13_Witness ==
    /\ nullspace_gain = 0
    /\ attempt >= 1
    /\ step >= 2
    /\ mapper_call /= <<>>
    /\ mapper_call[1].nullspace_bias = <<>>

\* The names __init__ looks up for the fingers fs are all defined by m.
ModelComplete(m, fs) ==
    /\ SeqToSet(wrist_joint_names) \subseteq m.joint
    /\ \A i \in 1..Len(fs) :
          /\ FINGER_FINGERTIP_SITE[fs[i]] \in m.site
          /\ SeqToSet(JOINT_GROUP[fs[i]]) \subseteq m.joint
    /\ SeqToSet(JOINT_NAMES) \subseteq m.joint

\* C14: when a requested fingertip site, a wrist joint, a joint of a tracked
\* finger or any hand joint is absent from the model, construction aborts:
\* a solver exists, and solve runs, only for a model that defines them all.
C14_MissingNameAbortsConstruction ==
    /\ pc \notin {"new", "aborted"} => ModelComplete(model, fingers)
    /\ (pc \in {"new", "aborted"}) =>
          (args = NoArgs /\ attempts = <<>> /\ mapper_call = <<>> /\ result = <<>>)
    /\ (pc /= "new" /\ ~ModelComplete(model, fingers)) => pc = "aborted"

\* Construction aborted for a model that lacks only the wrist joint, which
\* no assert of __init__ looks at before it is bound.
C14_Witness ==
    /\ pc = "aborted"
    /\ model.joint = Joints \ SeqToSet(wrist_joint_names)
    /\ \A i \in 1..Len(fingers) : FINGER_FINGERTIP_SITE[fingers[i]] \in model.site

\* Attempts of the running call begun so far, and the steps they executed.
AttemptsStarted == Len(attempts) + IF pc \in {"ik", "end", "raised"} THEN 1 ELSE 0

StepsExecuted ==
    SumSeq([i \in 1..Len(attempts) |-> attempts[i].steps])
        + IF pc \in {"ik", "end", "raised"} THEN step ELSE 0

\* C17: a solve call executes at most num_attempts attempts of at most
\* max_steps steps each, hence at most num_attempts * max_steps steps; when
\* it has ended with stop_on_first_successful_attempt unset it has executed
\* exactly num_attempts attempts.
C17_AttemptAndStepBounds ==
    pc \notin {"new", "aborted", "idle"} =>
        /\ AttemptsStarted <= args.num_attempts
        /\ step <= args.max_steps
        /\ \A i \in 1..Len(attempts) : attempts[i].steps <= args.max_steps
        /\ StepsExecuted <= args.num_attempts * args.max_steps
        /\ (pc \in {"done", "raised"} /\ ~args.stop_on_first_successful_attempt) =>
              AttemptsStarted = args.num_attempts

\* C18: a step computes the twists from the poses at its start, maps them,
\* integrates by one timestep and clamps; the per-target errors and
\* displacements, and with them the convergence and stall tests, are those
\* of the clamped configuration after integration, and the linear error of
\* a Solution is the mean error of the configuration the Solution carries.
C18_StepOrder ==
    /\ mapper_call /= <<>> =>
          LET c == mapper_call[1]
              tp == args.target_positions
              qdot == MapperVelocities(fingers, c.target_velocities, c.nullspace_bias)
          IN  /\ Len(c.target_velocities) = Len(tp)
              /\ \A i \in 1..Len(tp) :
                    c.target_velocities[i] =
                        ComputeTwist(SitePosition(c.data_qpos, tp[i][1]), tp[i][2])
              /\ \A j \in AllJoints :
                    qpos[j] = ClipValue(c.data_qpos[j] + RoundNearest(qdot[j]),
                                        JointRange[j].min, JointRange[j].max)
              /\ \A i \in 1..Len(tp) :
                    /\ last[i].linear_err = Abs(tp[i][2] - SitePosition(qpos, tp[i][1]))
                    /\ last[i].linear_change =
                          Abs(SitePosition(qpos, tp[i][1]) - SitePosition(c.data_qpos, tp[i][1]))
              /\ outcome = "CONVERGED" =>
                    \A i \in 1..Len(tp) :
                        Abs(tp[i][2] - SitePosition(qpos, tp[i][1])) <= args.linear_tol
              /\ outcome = "STALLED" =>
                    \E i \in 1..Len(tp) :
                        NotEnoughProgress(
                            Abs(tp[i][2] - SitePosition(qpos, tp[i][1])),
                            Abs(SitePosition(qpos, tp[i][1]) - SitePosition(c.data_qpos, tp[i][1])))
    /\ \A k \in 1..Len(attempts) :
          LET tp == args.target_positions
          IN  attempts[k].linear_err =
                  <<SumSeq([i \in 1..Len(tp) |->
                              Abs(tp[i][2] - SitePosition(attempts[k].qpos, tp[i][1]))]),
                    Len(tp)>>

\* A step whose integration left the joint limits and was clamped, with a
\* target still out of reach.
C18_Witness ==
    /\ mapper_call /= <<>>
    /\ step >= 2
    /\ LET c == mapper_call[1]
           qdot == MapperVelocities(fingers, c.target_velocities, c.nullspace_bias)
       IN  \E j \in AllJoints : c.data_qpos[j] + RoundNearest(qdot[j]) > JointRange[j].max
    /\ \E i \in 1..Len(last) : last[i].linear_err > 0

\* C19: for a target mapping over the solver's fingers, in any iteration
\* order, the twists passed to the mapper in a step are one per frame of the
\* mapper, entry i being the twist of the i-th finger of the constructor's
\* fingers sequence.
C19_TwistsFollowMapperFrames ==
    mapper_call /= <<>> =>
        LET c == mapper_call[1]
        IN  /\ Len(c.target_velocities) = Len(fingers)
            /\ \A i \in 1..Len(fingers) :
                  c.target_velocities[i] =
                      ComputeTwist(SitePosition(c.data_qpos, fingers[i]),
                                   TargetOf(args, fingers[i]))

\* C15: converting a control vector of NUM_ACTUATORS entries to joint
\* positions and back gives the control vector again; the conversion to
\* joint positions gives each of the two coupled joints of a group half of
\* the group's last control and copies every other control, the conversion
\* back sums the two coupled joints and copies every other position.
C15_ControlRoundTrip ==
    /\ \A h \in 1..Len(hist) :
          (hist[h].op = "control_to_joint_positions" /\ hist[h].out /= <<>>) =>
              \A k \in 1..Len(CONTROL_GROUPS) :
                  LET g == CONTROL_GROUPS[k]
                      c == ControlOffset(k)
                      j == JointOffset(k)
                      copied == IF g.coupled THEN g.controls - 1 ELSE g.controls
                  IN  /\ \A i \in 1..copied : hist[h].out[1][j + i] = hist[h].arg[c + i]
                      /\ g.coupled =>
                            /\ 2 * hist[h].out[1][j + g.controls] = hist[h].arg[c + g.controls]
                            /\ hist[h].out[1][j + g.controls + 1] = hist[h].out[1][j + g.controls]
    /\ \A h \in 1..Len(hist) :
          (hist[h].op = "joint_positions_to_control" /\ hist[h].out /= <<>>) =>
              \A k \in 1..Len(CONTROL_GROUPS) :
                  LET g == CONTROL_GROUPS[k]
                      c == ControlOffset(k)
                      j == JointOffset(k)
                      copied == IF g.coupled THEN g.controls - 1 ELSE g.controls
                  IN  /\ \A i \in 1..copied : hist[h].out[1][c + i] = hist[h].arg[j + i]
                      /\ g.coupled =>
                            hist[h].out[1][c + g.controls] =
                                hist[h].arg[j + g.controls] + hist[h].arg[j + g.controls + 1]
    /\ \A h \in 1..(Len(hist) - 1) :
          (/\ hist[h].op = "control_to_joint_positions"
           /\ hist[h].out /= <<>>
           /\ hist[h + 1].op = "joint_positions_to_control") =>
              hist[h + 1].out = <<hist[h].arg>>

\* A round trip of a control vector whose coupled controls are not zero.
C15_Witness ==
    /\ Len(hist) >= 2
    /\ hist[1].op = "control_to_joint_positions"
    /\ hist[2].op = "joint_positions_to_control"
    /\ hist[2].out = <<hist[1].arg>>
    /\ \A k \in 1..Len(CONTROL_GROUPS) :
          CONTROL_GROUPS[k].coupled =>
              hist[1].arg[ControlOffset(k) + CONTROL_GROUPS[k].controls] /= 0

\* The length a conversion requires of its argument and gives its result.
LengthIn(op) == IF op = "control_to_joint_positions" THEN NUM_ACTUATORS ELSE NUM_JOINTS

LengthOut(op) == IF op = "control_to_joint_positions" THEN NUM_JOINTS ELSE NUM_ACTUATORS

\* C16: control_to_joint_positions rejects every vector whose length is not
\* NUM_ACTUATORS and joint_positions_to_control every vector whose length
\* is not NUM_JOINTS, with ValueError and without a result; a vector of the
\* exact length gives a result of NUM_JOINTS, respectively NUM_ACTUATORS,
\* entries.
C16_LengthsChecked ==
    /\ \A h \in 1..Len(hist) :
          /\ Len(hist[h].arg) /= LengthIn(hist[h].op) => hist[h].out = <<>>
          /\ Len(hist[h].arg) = LengthIn(hist[h].op) =>
                (hist[h].out /= <<>> /\ Len(hist[h].out[1]) = LengthOut(hist[h].op))
    /\ hist /= <<>> => (hand_raised <=> hist[Len(hist)].out = <<>>)

\* Both conversions have rejected a vector one entry too long.
C16_Witness ==
    /\ Len(hist) >= 2
    /\ hand_raised
    /\ \E h \in 1..Len(hist) :
          /\ hist[h].op = "control_to_joint_positions"
          /\ Len(hist[h].arg) = NUM_ACTUATORS + 1
          /\ hist[h].out = <<>>
    /\ \E h \in 1..Len(hist) :
          /\ hist[h].op = "joint_positions_to_control"
          /\ Len(hist[h].arg) /= NUM_JOINTS
          /\ hist[h].out = <<>>

\* C20: before_step sets new targets only after the fingertips were all
\* within the threshold for steps_before_moving_target control steps in a
\* row since the targets were set; a step with a fingertip outside the
\* threshold restarts the count.
C20_TargetsMoveAfterConsecutiveSteps ==
    /\ moved_after /= <<>> => moved_after[1] >= steps_before_moving_target
    /\ reach_pc \in {"before_step", "substeps", "after_step", "terminate?", "terminated"} =>
          reward_step_counter = streak

\* C21: the single-solve time limit bounds the time to reach the current
\* targets: the episode is marked as having exceeded it only when the
\* current targets were not registered as solved within the limit of being
\* set, and never once they have been registered as solved.
C21_TimeoutOnlyBeforeSolve ==
    exceeded_single_solve_time =>
        /\ ~registered_solve
        /\ time - solve_start_time > MaxTimeSingleSolve

\* C22: total_solves rises at most once per placement of the targets:
\* between two re-samplings (initialize_episode or a re-sampling
\* before_step) the calls of after_step raise it by at most 1; it never
\* decreases within an episode and only initialize_episode resets it to 0.
C22_OneSolvePerPlacement ==
    /\ [](/\ total_solves - placed_solves \in {0, 1}
          /\ registered_solve <=> (total_solves = placed_solves + 1))
    /\ [][/\ total_solves' >= total_solves \/ (reach_pc \in {"reset", "terminated"} /\ total_solves' = 0)
          /\ total_solves' <= total_solves + 1
          /\ total_solves' /= total_solves => reach_pc \in {"after_step", "reset", "terminated"}]_vars

\* The targets were within reach in three steps of one placement and were
\* counted once.
C22_Witness ==
    /\ reward_step_counter >= 3
    /\ registered_solve
    /\ total_solves = placed_solves + 1

\* C23: should_terminate_episode answers true exactly when total_solves >=
\* max_solves or the single-solve timeout flag is set; hence as long as it
\* has not reported termination total_solves < max_solves, and total_solves
\* does not exceed max_solves when termination is first reported.
C23_TerminationExact ==
    /\ (should_terminate /= <<>> /\ reach_pc \in {"before_step", "terminated"}) =>
          (should_terminate[1] <=>
               (total_solves >= max_solves \/ exceeded_single_solve_time))
    /\ (should_terminate = <<FALSE>> /\ reach_pc \in {"before_step", "substeps", "after_step"}) =>
          total_solves < max_solves
    /\ should_terminate = <<TRUE>> => (reach_pc = "terminated" /\ total_solves <= max_solves)

\* C23, for a task with max_solves >= 1: should_terminate_episode answers
\* true exactly when total_solves >= max_solves or the single-solve timeout
\* flag is set, whatever max_solves; when max_solves >= 1, total_solves <
\* max_solves as long as termination has not been reported and total_solves
\* <= max_solves when it is first reported.
C23_TerminationExactPositive ==
    /\ (should_terminate /= <<>> /\ reach_pc \in {"before_step", "terminated"}) =>
          (should_terminate[1] <=>
               (total_solves >= max_solves \/ exceeded_single_solve_time))
    /\ should_terminate = <<TRUE>> => reach_pc = "terminated"
    /\ max_solves >= 1 =>
          /\ (should_terminate /= <<TRUE>>
               /\ reach_pc \in {"before_step", "substeps", "after_step"}) =>
                 total_solves < max_solves
          /\ total_solves <= max_solves

\* Termination reported on the solve that reaches max_solves, without a
\* timeout.
C23_Witness ==
    /\ should_terminate = <<TRUE>>
    /\ max_solves >= 2
    /\ total_solves = max_solves
    /\ ~exceeded_single_solve_time

====
